---- MODULE Spec2Model ----
(***************************************************************************)
(* A model of textual's TreeControl widget (widgets/_tree_control.py) and  *)
(* of the event classes it consumes (events.py).                           *)
(*                                                                         *)
(* A TreeControl is a record s of its fields:                              *)
(*   node_id      the id counter (TreeControl.node_id)                      *)
(*   nodes        the registry: id -> TreeNode, a TreeNode being a record  *)
(*                [id, parent, children, expanded]; children holds the ids *)
(*                of the child TreeNode objects in list order              *)
(*   cursor, cursor_line, show_cursor, hover_node   the Reactive fields    *)
(*   log          what the calls made on the record asked of the outside:  *)
(*                watchers invoked, refresh and scroll requests, messages  *)
(*                posted, an exception raised; it is no field of the       *)
(*                widget and no part of the state                          *)
(* Every method is an operator from such a record to the record after the  *)
(* call; the actions apply the methods to the current state.               *)
(***************************************************************************)
EXTENDS Integers, Sequences, FiniteSets, TLC

VARIABLES node_id, nodes, cursor, cursor_line, show_cursor, hover_node,
          event, target, offered

vars == <<node_id, nodes, cursor, cursor_line, show_cursor, hover_node,
          event, target, offered>>

ctlvars == <<node_id, nodes, cursor, cursor_line, show_cursor, hover_node>>

evvars == <<event, target, offered>>

(* Bounds of the model: the nodes of a tree (root included) under Spec,    *)
(* TreeSpec, ScenarioSpec and EventSpec, the largest |cursor_line|         *)
(* followed, and the largest viewport height.                              *)
MaxNodes == 4

MaxTreeNodes == 5

MaxScenarioNodes == 5

MaxLine == 4

MaxHeight == 2

EvMaxNodes == 2

(* Python's None, for an optional node or an optional line. *)
None == 0 - 1

(***************************************************************************)
(* What a call asks of its collaborators                                   *)
(***************************************************************************)

(* One entry of the log; arg is a line, a node id or None. *)
LogEntry(what, name, arg) == [what |-> what, name |-> name, arg |-> arg]

Logged(s, what, name, arg) == [s EXCEPT !.log = Append(@, LogEntry(what, name, arg))]

(* self.refresh() and self.refresh(layout=True) *)
refresh(s) == Logged(s, "refresh", "", None)

refresh_layout(s) == Logged(s, "refresh", "layout", None)

(* self.emit_no_wait(messages.ScrollToRegion(self, Region(0, line, width, 1))) *)
scroll_to_line(s, line) == Logged(s, "scroll", "", line)

(* self.post_message_no_wait(self.NodeSelected(self, node)) *)
post_NodeSelected(s, node) == Logged(s, "post", "NodeSelected", node)

(* An exception leaves the call: nothing after it runs. *)
Raise(s, exception) == Logged(s, "raise", exception, None)

(* The entries of a log of one kind, and those about one name. *)
Entries(log, what) == SelectSeq(log, LAMBDA x : x.what = what)

EntriesOf(log, what, name) == SelectSeq(log, LAMBDA x : x.what = what /\ x.name = name)

(* The call that produced s raised. *)
Raised(s) == Entries(s.log, "raise") # <<>>

(* The record without its log: the widget's fields. *)
Fields(s) == [s EXCEPT !.log = <<>>]

(***************************************************************************)
(* TreeNode                                                                *)
(***************************************************************************)

(* TreeNode.__init__: a new node is collapsed and has no children. *)
TreeNode(parent, id) ==
    [id |-> id, parent |-> parent, children |-> <<>>, expanded |-> FALSE]

(* The index of the first entry of a list that is the node n, 0 if none:   *)
(* the position the "for node in iter_siblings: if node is self" scans of  *)
(* next_sibling and previous_sibling stop at.                              *)
IndexOf(seq, n) ==
    IF \E i \in 1..Len(seq) : seq[i] = n
    THEN CHOOSE i \in 1..Len(seq) : seq[i] = n /\ \A j \in 1..(i - 1) : seq[j] # n
    ELSE 0

next_sibling(s, n) ==
    IF s.nodes[n].parent = None THEN None
    ELSE LET siblings == s.nodes[s.nodes[n].parent].children
             i == IndexOf(siblings, n)
         IN IF i = 0 \/ i = Len(siblings) THEN None ELSE siblings[i + 1]

previous_sibling(s, n) ==
    IF s.nodes[n].parent = None THEN None
    ELSE LET siblings == s.nodes[s.nodes[n].parent].children
             i == IndexOf(siblings, n)
         IN IF i <= 1 THEN None ELSE siblings[i - 1]

(* The "while True" loop of next_node, entered with node = self. *)
RECURSIVE next_node_walk(_, _)
next_node_walk(s, node) ==
    IF s.nodes[node].parent = None THEN None
    ELSE LET sibling == next_sibling(s, s.nodes[node].parent)
         IN IF sibling # None THEN sibling
            ELSE next_node_walk(s, s.nodes[node].parent)

(* next_node that looks one level up only: the parent's next sibling. *)
next_node_one_level(s, n) ==
    IF s.nodes[n].expanded /\ s.nodes[n].children # <<>>
    THEN s.nodes[n].children[1]
    ELSE LET sibling == next_sibling(s, n)
         IN IF sibling # None THEN sibling
            ELSE IF s.nodes[n].parent = None THEN None
            ELSE next_sibling(s, s.nodes[n].parent)

next_node(s, n) ==
    IF s.nodes[n].expanded /\ s.nodes[n].children # <<>>
    THEN s.nodes[n].children[1]
    ELSE LET sibling == next_sibling(s, n)
         IN IF sibling # None THEN sibling ELSE next_node_walk(s, n)

(* The local function last_sibling of previous_node. *)
RECURSIVE last_sibling(_, _)
last_sibling(s, node) ==
    LET children == s.nodes[node].children
    IN IF s.nodes[node].expanded /\ children # <<>>
       THEN last_sibling(s, children[Len(children)])
       ELSE node

(* Mutant of previous_node: the previous sibling itself is returned, not   *)
(* the last node shown below it.                                           *)
previous_node_sibling_only(s, n) ==
    LET sibling == previous_sibling(s, n)
    IN IF sibling # None THEN sibling
       ELSE IF s.nodes[n].parent = None THEN None
       ELSE s.nodes[n].parent

previous_node(s, n) ==
    LET sibling == previous_sibling(s, n)
    IN IF sibling # None THEN last_sibling(s, sibling)
       ELSE IF s.nodes[n].parent = None THEN None
       ELSE s.nodes[n].parent

(* Mutant of expand: collapsing a node collapses its children as well. *)
expand_with_children(s, n, expanded) ==
    refresh_layout([s EXCEPT !.nodes = [k \in DOMAIN s.nodes |->
        IF k = n \/ (~expanded /\ s.nodes[k].parent = n)
        THEN [s.nodes[k] EXCEPT !.expanded = expanded]
        ELSE s.nodes[k]]])

(* TreeNode.expand(expanded): sets the flag of the one node. *)
expand(s, n, expanded) ==
    refresh_layout([s EXCEPT !.nodes[n].expanded = expanded])

toggle(s, n) == expand(s, n, ~s.nodes[n].expanded)

(***************************************************************************)
(* TreeControl                                                             *)
(***************************************************************************)

(* TreeControl.__init__ and the Reactive defaults. *)
TreeControl ==
    [node_id |-> 0,
     nodes |-> (0 :> TreeNode(None, 0)),
     cursor |-> 0,
     cursor_line |-> 0,
     show_cursor |-> FALSE,
     hover_node |-> None,
     log |-> <<>>]

(* The watchers. *)
watch_show_cursor(s, value) == scroll_to_line(s, s.cursor_line)

watch_cursor_line(s, value) == scroll_to_line(s, value)

watch_hover_node(s, previous_hover_node, new_hover_node) == refresh(s)

watch_cursor(s, previous_cursor_node, cursor_node) == refresh(s)

(* Assignment to a Reactive attribute: an equal value is a no-op; a        *)
(* different one is stored and the attribute's watcher runs before the     *)
(* assignment returns.                                                     *)
set_attr(s, name, value) ==
    IF s[name] = value THEN s
    ELSE LET old == s[name]
             stored == Logged([s EXCEPT ![name] = value], "watch", name, None)
         IN CASE name = "show_cursor" -> watch_show_cursor(stored, value)
              [] name = "cursor_line" -> watch_cursor_line(stored, value)
              [] name = "hover_node" -> watch_hover_node(stored, old, value)
              [] name = "cursor" -> watch_cursor(stored, old, value)

(* self.nodes[key] = node: a dict assignment adds the key or replaces its value. *)
DictSet(d, key, value) ==
    [k \in DOMAIN d \cup {key} |-> IF k = key THEN value ELSE d[k]]

(* Mutant of add: the incremented counter is used but never stored. *)
add_counter_not_stored(s, parent_id) ==
    LET new_id == s.node_id + 1
        appended == [s.nodes EXCEPT ![parent_id].children = Append(@, new_id)]
    IN [s EXCEPT !.nodes = DictSet(appended, new_id, TreeNode(parent_id, new_id))]

(* Mutant of add: the child is put first in the parent's children. *)
add_child_first(s, parent_id) ==
    LET new_id == s.node_id + 1
        inserted == [s.nodes EXCEPT ![parent_id].children = <<new_id>> \o @]
    IN [s EXCEPT !.node_id = new_id,
                 !.nodes = DictSet(inserted, new_id, TreeNode(parent_id, new_id))]

(* add with the counter advanced before the parent is looked up. *)
add_counter_first(s, parent_id) ==
    LET new_id == s.node_id + 1
        counted == [s EXCEPT !.node_id = new_id]
    IN IF parent_id \notin DOMAIN s.nodes THEN Raise(counted, "KeyError")
       ELSE LET appended == [s.nodes EXCEPT ![parent_id].children = Append(@, new_id)]
            IN refresh_layout(
                   [counted EXCEPT !.nodes = DictSet(appended, new_id, TreeNode(parent_id, new_id))])

(* TreeControl.add(node_id, ...): self.nodes[node_id] raises KeyError for  *)
(* an id that is not registered, before anything is changed.               *)
add(s, parent_id) ==
    IF parent_id \notin DOMAIN s.nodes THEN Raise(s, "KeyError")
    ELSE LET new_id == s.node_id + 1
             appended == [s.nodes EXCEPT ![parent_id].children = Append(@, new_id)]
         IN refresh_layout(
                [s EXCEPT !.node_id = new_id,
                          !.nodes = DictSet(appended, new_id, TreeNode(parent_id, new_id))])

(* TreeNode.add: delegates to the control's add with its own id, then      *)
(* asks for a refresh.                                                     *)
TreeNode_add(s, n) ==
    LET added == add(s, n)
    IN IF Raised(added) THEN added ELSE refresh_layout(added)

(* The loop of find_cursor: stack is the list of iterators, each the list  *)
(* of the nodes it has yet to yield; pop takes the last one.               *)
RECURSIVE find_cursor_loop(_, _, _)
find_cursor_loop(s, stack, line) ==
    IF stack = <<>> THEN None
    ELSE LET iter_children == stack[Len(stack)]
             popped == SubSeq(stack, 1, Len(stack) - 1)
         IN IF iter_children = <<>> THEN find_cursor_loop(s, popped, line)
            ELSE LET node == Head(iter_children)
                     pushed == Append(popped, Tail(iter_children))
                 IN IF s.nodes[node].id = s.cursor THEN line
                    ELSE IF s.nodes[node].children # <<>> /\ s.nodes[node].expanded
                    THEN find_cursor_loop(s, Append(pushed, s.nodes[node].children), line + 1)
                    ELSE find_cursor_loop(s, pushed, line + 1)

(* Mutant of find_cursor: the scan descends into collapsed nodes too. *)
RECURSIVE find_cursor_loop_any_flag(_, _, _)
find_cursor_loop_any_flag(s, stack, line) ==
    IF stack = <<>> THEN None
    ELSE LET iter_children == stack[Len(stack)]
             popped == SubSeq(stack, 1, Len(stack) - 1)
         IN IF iter_children = <<>> THEN find_cursor_loop_any_flag(s, popped, line)
            ELSE LET node == Head(iter_children)
                     pushed == Append(popped, Tail(iter_children))
                 IN IF s.nodes[node].id = s.cursor THEN line
                    ELSE IF s.nodes[node].children # <<>>
                    THEN find_cursor_loop_any_flag(s, Append(pushed, s.nodes[node].children), line + 1)
                    ELSE find_cursor_loop_any_flag(s, pushed, line + 1)

find_cursor_any_flag(s) == find_cursor_loop_any_flag(s, << <<0>> >>, 0)

find_cursor(s) == find_cursor_loop(s, << <<0>> >>, 0)

(* "x or 0" for x an int or None. *)
OrZero(x) == IF x = None THEN 0 ELSE x

(* action_click_label that posts NodeSelected before it moves the cursor. *)
action_click_label_post_first(s, id) ==
    IF id \notin DOMAIN s.nodes THEN Raise(s, "KeyError")
    ELSE LET s0 == post_NodeSelected(s, id)
             s1 == set_attr(s0, "cursor", s.nodes[id].id)
             s2 == set_attr(s1, "cursor_line", OrZero(find_cursor(s1)))
         IN set_attr(s2, "show_cursor", TRUE)

action_click_label(s, id) ==
    IF id \notin DOMAIN s.nodes THEN Raise(s, "KeyError")
    ELSE LET s1 == set_attr(s, "cursor", s.nodes[id].id)
             s2 == set_attr(s1, "cursor_line", OrZero(find_cursor(s1)))
             s3 == set_attr(s2, "show_cursor", TRUE)
         IN post_NodeSelected(s3, id)

(* Mutant of cursor_down: the line is advanced whether or not a next node  *)
(* exists.                                                                 *)
cursor_down_line_first(s) ==
    IF ~s.show_cursor THEN set_attr(s, "show_cursor", TRUE)
    ELSE LET nxt == next_node(s, s.cursor)
             moved == set_attr(s, "cursor_line", s.cursor_line + 1)
         IN IF nxt # None THEN set_attr(moved, "cursor", s.nodes[nxt].id) ELSE moved

cursor_down(s) ==
    IF ~s.show_cursor THEN set_attr(s, "show_cursor", TRUE)
    ELSE LET nxt == next_node(s, s.cursor)
         IN IF nxt # None
            THEN set_attr(set_attr(s, "cursor_line", s.cursor_line + 1),
                          "cursor", s.nodes[nxt].id)
            ELSE s

(* cursor_up that moves the cursor and leaves cursor_line as it is. *)
cursor_up_line_kept(s) ==
    IF ~s.show_cursor THEN set_attr(s, "show_cursor", TRUE)
    ELSE LET prv == previous_node(s, s.cursor)
         IN IF prv # None THEN set_attr(s, "cursor", s.nodes[prv].id) ELSE s

(* cursor_up that shows the cursor and moves in the same call. *)
cursor_up_shows_and_moves(s) ==
    LET shown == set_attr(s, "show_cursor", TRUE)
        prv == previous_node(s, s.cursor)
    IN IF prv # None
       THEN set_attr(set_attr(shown, "cursor_line", s.cursor_line - 1),
                     "cursor", s.nodes[prv].id)
       ELSE shown

cursor_up(s) ==
    IF ~s.show_cursor THEN set_attr(s, "show_cursor", TRUE)
    ELSE LET prv == previous_node(s, s.cursor)
         IN IF prv # None
            THEN set_attr(set_attr(s, "cursor_line", s.cursor_line - 1),
                          "cursor", s.nodes[prv].id)
            ELSE s

(* The "for _ in range(height)" loop of key_pagedown on its two locals. *)
RECURSIVE pagedown_loop(_, _, _, _)
pagedown_loop(s, c, line, height) ==
    IF height <= 0 THEN <<c, line>>
    ELSE LET nxt == next_node(s, c)
         IN IF nxt # None THEN pagedown_loop(s, s.nodes[nxt].id, line + 1, height - 1)
            ELSE pagedown_loop(s, c, line, height - 1)

key_pagedown(s, height) ==
    LET r == pagedown_loop(s, s.cursor, s.cursor_line, height)
    IN set_attr(set_attr(s, "cursor", r[1]), "cursor_line", r[2])

(* The page-up loop with the line taken back on every iteration, whether   *)
(* or not there is a previous node.                                        *)
RECURSIVE pageup_loop_line_always(_, _, _, _)
pageup_loop_line_always(s, c, line, height) ==
    IF height = 0 THEN <<c, line>>
    ELSE LET prv == previous_node(s, c)
         IN pageup_loop_line_always(s, IF prv # None THEN s.nodes[prv].id ELSE c,
                                    line - 1, height - 1)

RECURSIVE pageup_loop(_, _, _, _)
pageup_loop(s, c, line, height) ==
    IF height <= 0 THEN <<c, line>>
    ELSE LET prv == previous_node(s, c)
         IN IF prv # None THEN pageup_loop(s, s.nodes[prv].id, line - 1, height - 1)
            ELSE pageup_loop(s, c, line, height - 1)

key_pageup(s, height) ==
    LET r == pageup_loop(s, s.cursor, s.cursor_line, height)
    IN set_attr(set_attr(s, "cursor", r[1]), "cursor_line", r[2])

(* Mutant of key_home: the cursor goes to the root, the line is kept. *)
key_home_line_kept(s) == set_attr(s, "cursor", 0)

(* key_home that calls the cursor_line watcher itself after the            *)
(* assignments.                                                            *)
key_home_forced_scroll(s) ==
    watch_cursor_line(set_attr(set_attr(s, "cursor_line", 0), "cursor", 0), 0)

key_home(s) == set_attr(set_attr(s, "cursor_line", 0), "cursor", 0)

(* key_end that takes the root's first child. *)
key_end_first_child(s) ==
    LET children == s.nodes[0].children
    IN IF children = <<>> THEN Raise(s, "IndexError")
       ELSE LET s1 == set_attr(s, "cursor", s.nodes[children[1]].id)
            IN set_attr(s1, "cursor_line", OrZero(find_cursor(s1)))

(* key_end: children[-1] of a root without children raises IndexError      *)
(* before anything is assigned.                                            *)
key_end(s) ==
    LET children == s.nodes[0].children
    IN IF children = <<>> THEN Raise(s, "IndexError")
       ELSE LET s1 == set_attr(s, "cursor", s.nodes[children[Len(children)]].id)
            IN set_attr(s1, "cursor_line", OrZero(find_cursor(s1)))

(***************************************************************************)
(* Events (events.py) and their handlers in TreeControl                    *)
(***************************************************************************)

(* The event classes of events.py that take the bubble keyword. *)
Kinds ==
    {"NoneEvent", "ShutdownRequest", "Shutdown", "Load", "Startup", "Created",
     "Updated", "Idle", "Resize", "Mount", "Unmount", "InputEvent", "Key",
     "MouseEvent", "MouseMove", "MouseDown", "MouseUp", "MouseScrollDown",
     "MouseScrollUp", "Click", "DoubleClick", "Timer", "Enter", "Leave"}

(* The bubble keyword of each class statement: <<v>> for "bubble=v", <<>>  *)
(* where the statement gives none. Only InputEvent and Key give one.       *)
ClassKeywords(kind) ==
    IF kind \in {"InputEvent", "Key"} THEN <<TRUE>> ELSE <<>>

(* Message.__init_subclass__(bubble): the class's bubble flag is the value *)
(* it is given.                                                            *)
Message_init_subclass(bubble) == bubble

(* Event.__init_subclass__(cls, bubble=False): runs for every subclass     *)
(* statement with that statement's keyword, False when it gives none, and  *)
(* hands it to Message.                                                    *)
Event_init_subclass(keywords) ==
    Message_init_subclass(IF keywords = <<>> THEN FALSE ELSE keywords[1])

(* cls.bubble of an event class. *)
Bubble(kind) == Event_init_subclass(ClassKeywords(kind))

(* An event instance: Key carries key, MouseMove the tree_node of the      *)
(* style under the pointer (node); stop is the flag Message.stop() sets.   *)
NewEvent(kind, sender, key, node) ==
    [kind |-> kind, sender |-> sender, key |-> key, node |-> node, stop |-> FALSE]

(* No event has been emitted yet. *)
NoEvent == [kind |-> "", sender |-> "", key |-> "", node |-> None, stop |-> FALSE]

(* event.stop() *)
stop(e) == [e EXCEPT !.stop = TRUE]

(* A handler's outcome: the control and the event after it ran. *)
Outcome(s, e) == [ctl |-> s, event |-> e]

(* Mutant of key_down: the event is not stopped. *)
key_down_no_stop(s, e) == Outcome(cursor_down(s), e)

key_down(s, e) == Outcome(cursor_down(s), stop(e))

key_up(s, e) == Outcome(cursor_up(s), stop(e))

(* key_enter: stops the event and posts NodeSelected for the node at the   *)
(* cursor.                                                                 *)
key_enter(s, e) == Outcome(post_NodeSelected(s, s.nodes[s.cursor].id), stop(e))

(* The keys a Key event may name: those TreeControl has a key_ method for, *)
(* and one it has none for.                                                *)
KeyNames == {"down", "up", "enter", "pagedown", "pageup", "home", "end", "x"}

(* dispatch_key: calls the control's key_<name> method, with the event     *)
(* when the method takes one; height is the viewport height read by the    *)
(* page moves.                                                             *)
dispatch_key(s, e, height) ==
    CASE e.key = "down" -> key_down(s, e)
      [] e.key = "up" -> key_up(s, e)
      [] e.key = "enter" -> key_enter(s, e)
      [] e.key = "pagedown" -> Outcome(key_pagedown(s, height), e)
      [] e.key = "pageup" -> Outcome(key_pageup(s, height), e)
      [] e.key = "home" -> Outcome(key_home(s), e)
      [] e.key = "end" -> Outcome(key_end(s), e)
      [] OTHER -> Outcome(s, e)

on_key(s, e, height) == dispatch_key(s, e, height)

on_mouse_move(s, e) == Outcome(set_attr(s, "hover_node", e.node), e)

(* The handlers TreeControl has for an event of each kind. *)
TreeControl_handle(s, e, height) ==
    CASE e.kind = "Key" -> on_key(s, e, height)
      [] e.kind = "MouseMove" -> on_mouse_move(s, e)
      [] OTHER -> Outcome(s, e)

(* The ancestor chain: a widget inside the TreeControl, the TreeControl,   *)
(* and the TreeControl's parent.                                           *)
Chain == <<"leaf", "middle", "top">>

Parent(widget) ==
    CASE widget = "leaf" -> "middle"
      [] widget = "middle" -> "top"
      [] OTHER -> "done"

(* After widget's handler returned: the event goes on to the parent if its *)
(* kind bubbles, it was not stopped and there is a parent.                 *)
Forward(e, widget) ==
    IF Bubble(e.kind) /\ ~e.stop THEN Parent(widget) ELSE "done"

(***************************************************************************)
(* The state machine                                                       *)
(***************************************************************************)

(* The control as a record of the current state. *)
Self ==
    [node_id |-> node_id, nodes |-> nodes, cursor |-> cursor,
     cursor_line |-> cursor_line, show_cursor |-> show_cursor,
     hover_node |-> hover_node, log |-> <<>>]

(* The control becomes t; the model follows cursor_line within its bound. *)
Become(t) ==
    /\ t.cursor_line \in (0 - MaxLine)..MaxLine
    /\ node_id' = t.node_id
    /\ nodes' = t.nodes
    /\ cursor' = t.cursor
    /\ cursor_line' = t.cursor_line
    /\ show_cursor' = t.show_cursor
    /\ hover_node' = t.hover_node

(* Navigable order, as the glossary defines it: the pre-order sequence of  *)
(* the nodes reached by descending only into expanded nodes.               *)
RECURSIVE PreOrder(_, _)
RECURSIVE PreOrderAll(_, _)
PreOrder(s, n) ==
    <<n>> \o (IF s.nodes[n].expanded THEN PreOrderAll(s, s.nodes[n].children) ELSE <<>>)

PreOrderAll(s, seq) ==
    IF seq = <<>> THEN <<>> ELSE PreOrder(s, Head(seq)) \o PreOrderAll(s, Tail(seq))

Navigable(s) == PreOrder(s, 0)

Range(seq) == {seq[i] : i \in 1..Len(seq)}

(* The node is reachable in navigable order: its ancestors are all expanded. *)
RECURSIVE Visible(_, _)
Visible(s, n) ==
    IF s.nodes[n].parent = None THEN TRUE
    ELSE s.nodes[s.nodes[n].parent].expanded /\ Visible(s, s.nodes[n].parent)

(* Ids no node is registered under: the counter never reached them. *)
UnknownIds(s) == {s.node_id + 1, s.node_id + 2}

(* The Reactive attributes of the control. *)
ReactiveNames == {"hover_node", "cursor", "cursor_line", "show_cursor"}

(* The outcomes of every handler that assigns Reactive attributes, called  *)
(* on s.                                                                   *)
Handled(s) ==
    {cursor_down(s), cursor_up(s), key_home(s), key_end(s)}
        \cup {key_pagedown(s, h) : h \in 0..MaxHeight}
        \cup {key_pageup(s, h) : h \in 0..MaxHeight}
        \cup {action_click_label(s, id) : id \in DOMAIN s.nodes}
        \cup {on_mouse_move(s, NewEvent("MouseMove", "leaf", "", n)).ctl :
                    n \in DOMAIN s.nodes \cup {None}}

(* The outcomes of every call on the tree and of every handler, called on  *)
(* s.                                                                      *)
Called(s) ==
    Handled(s)
        \cup {TreeNode_add(s, n) : n \in DOMAIN s.nodes}
        \cup {add(s, n) : n \in UnknownIds(s)}
        \cup {toggle(s, n) : n \in DOMAIN s.nodes}
        \cup {expand(s, n, b) : n \in DOMAIN s.nodes, b \in BOOLEAN}

Init ==
    /\ node_id = TreeControl.node_id
    /\ nodes = TreeControl.nodes
    /\ cursor = TreeControl.cursor
    /\ cursor_line = TreeControl.cursor_line
    /\ show_cursor = TreeControl.show_cursor
    /\ hover_node = TreeControl.hover_node
    /\ event = NoEvent
    /\ target = "done"
    /\ offered = <<>>

(* node.add(label, data) on a registered node, while the tree has fewer    *)
(* than max nodes.                                                         *)
AddUpTo(max) ==
    /\ Cardinality(DOMAIN nodes) < max
    /\ \E parent_id \in DOMAIN nodes : Become(TreeNode_add(Self, parent_id))
    /\ UNCHANGED evvars

Add == AddUpTo(MaxNodes)

(* control.add(node_id, label) with an id that is not registered. *)
AddUnknown ==
    /\ \E parent_id \in UnknownIds(Self) : Become(Fields(add(Self, parent_id)))
    /\ UNCHANGED evvars

Toggle ==
    /\ \E n \in DOMAIN nodes : Become(toggle(Self, n))
    /\ UNCHANGED evvars

(* node.expand(): the call with the default argument, expanded = True;     *)
(* Toggle makes the collapsing calls.                                      *)
Expand ==
    /\ \E n \in DOMAIN nodes : Become(expand(Self, n, TRUE))
    /\ UNCHANGED evvars

ClickLabel ==
    /\ \E id \in DOMAIN nodes : Visible(Self, id) /\ Become(action_click_label(Self, id))
    /\ UNCHANGED evvars

CursorDown == Become(cursor_down(Self)) /\ UNCHANGED evvars

CursorUp == Become(cursor_up(Self)) /\ UNCHANGED evvars

KeyPageDown ==
    /\ \E height \in 0..MaxHeight : Become(key_pagedown(Self, height))
    /\ UNCHANGED evvars

KeyPageUp ==
    /\ \E height \in 0..MaxHeight : Become(key_pageup(Self, height))
    /\ UNCHANGED evvars

KeyHome == Become(key_home(Self)) /\ UNCHANGED evvars

KeyEnd == Become(key_end(Self)) /\ UNCHANGED evvars

(* The enter key, delivered to the control itself. *)
EnterKey == NewEvent("Key", "middle", "enter", None)

KeyEnter == Become(key_enter(Self, EnterKey).ctl) /\ UNCHANGED evvars

Next ==
    \/ Add
    \/ AddUnknown
    \/ Toggle
    \/ Expand
    \/ ClickLabel
    \/ CursorDown
    \/ CursorUp
    \/ KeyPageDown
    \/ KeyPageUp
    \/ KeyHome
    \/ KeyEnd
    \/ KeyEnter

Spec == Init /\ [][Next]_vars

(* A freshly created control whose tree is being built and expanded: no    *)
(* cursor operation has been called yet.                                   *)
BuildAdd == AddUpTo(MaxTreeNodes)

TreeNext ==
    \/ BuildAdd
    \/ Toggle
    \/ Expand

TreeSpec == Init /\ [][TreeNext]_vars

(* The operations of the concrete scenario of spec section 8: the tree is  *)
(* built and expanded or collapsed, the cursor is stepped down and sent    *)
(* back to the root.                                                       *)
ScenarioAdd == AddUpTo(MaxScenarioNodes)

ScenarioNext ==
    \/ ScenarioAdd
    \/ Toggle
    \/ Expand
    \/ CursorDown
    \/ KeyHome

ScenarioSpec == Init /\ [][ScenarioNext]_vars

(* A new event is emitted once the one before has finished bubbling. *)
Emit ==
    /\ target = "done"
    /\ \E kind \in Kinds, sender \in Range(Chain) :
        \E key \in (IF kind = "Key" THEN KeyNames ELSE {""}) :
            \E node \in (IF kind = "MouseMove"
                         THEN {None} \cup {n \in DOMAIN nodes : Visible(Self, n)}
                         ELSE {None}) :
                /\ event' = NewEvent(kind, sender, key, node)
                /\ target' = sender
                /\ offered' = <<>>
    /\ UNCHANGED ctlvars

(* The leaf's handler: some handler that may stop the event. *)
OfferLeaf ==
    /\ target = "leaf"
    /\ \E stops \in BOOLEAN :
        LET e == IF stops THEN stop(event) ELSE event
        IN /\ event' = e
           /\ target' = Forward(e, "leaf")
    /\ offered' = Append(offered, "leaf")
    /\ UNCHANGED ctlvars

(* The TreeControl's handler. *)
OfferTreeControl ==
    /\ target = "middle"
    /\ \E height \in 0..MaxHeight :
        LET out == TreeControl_handle(Self, event, height)
        IN /\ Become(out.ctl)
           /\ event' = out.event
           /\ target' = Forward(out.event, "middle")
    /\ offered' = Append(offered, "middle")

(* The top widget's handler: it only receives. *)
OfferTop ==
    /\ target = "top"
    /\ event' = event
    /\ target' = Forward(event, "top")
    /\ offered' = Append(offered, "top")
    /\ UNCHANGED ctlvars

EvAdd == target = "done" /\ AddUpTo(EvMaxNodes)

EvToggle == target = "done" /\ Toggle

EvExpand == target = "done" /\ Expand

EventNext ==
    \/ Emit
    \/ OfferLeaf
    \/ OfferTreeControl
    \/ OfferTop
    \/ EvAdd
    \/ EvToggle
    \/ EvExpand

EventSpec == Init /\ [][EventNext]_vars

(***************************************************************************)
(* Definitions the properties are stated with                              *)
(***************************************************************************)

(* The sequence n, next_node(n), next_node(next_node(n)), ... up to None,  *)
(* cut after fuel entries.                                                 *)
RECURSIVE NextWalk(_, _, _)
NextWalk(s, n, fuel) ==
    IF n = None \/ fuel = 0 THEN <<>>
    ELSE <<n>> \o NextWalk(s, next_node(s, n), fuel - 1)

NextSeq(s) == NextWalk(s, 0, Cardinality(DOMAIN s.nodes) + 1)

(* a is a proper ancestor of n. *)
RECURSIVE IsAncestor(_, _, _)
IsAncestor(s, a, n) ==
    IF s.nodes[n].parent = None THEN FALSE
    ELSE s.nodes[n].parent = a \/ IsAncestor(s, a, s.nodes[n].parent)

(* seq without the proper descendants of n. *)
WithoutSubtree(s, seq, n) ==
    LET Keep(x) == ~IsAncestor(s, n, x) IN SelectSeq(seq, Keep)

Occurrences(seq, n) == Cardinality({i \in 1..Len(seq) : seq[i] = n})

Increasing(seq) == \A i, j \in 1..Len(seq) : i < j => seq[i] < seq[j]

Last(seq) == seq[Len(seq)]

(***************************************************************************)
(* C1: whenever the cursor node is reachable in navigable order,           *)
(* cursor_line is the zero-based position of that node in navigable order, *)
(* that is, cursor_line = find_cursor().                                   *)
(***************************************************************************)
C1_CursorLineIsFindCursor ==
    Visible(Self, cursor) => cursor_line = find_cursor(Self)

(***************************************************************************)
(* C2: traversal inverse law: for every node n reachable in navigable      *)
(* order whose previous_node p is not None, next_node(p) = n.              *)
(***************************************************************************)
C2_TraversalInverse ==
    \A n \in DOMAIN nodes :
        (Visible(Self, n) /\ previous_node(Self, n) # None)
            => next_node(Self, previous_node(Self, n)) = n

(* A navigable node whose previous node lies deeper than its previous      *)
(* sibling, in a tree where a collapsed navigable node has children.       *)
C2_Witness ==
    \E n, m \in DOMAIN nodes :
        /\ Visible(Self, n)
        /\ previous_sibling(Self, n) # None
        /\ previous_node(Self, n) # previous_sibling(Self, n)
        /\ Visible(Self, m)
        /\ ~nodes[m].expanded
        /\ nodes[m].children # <<>>

(***************************************************************************)
(* C3: find_cursor correctness: for every cursor id, if the cursor node is *)
(* reachable in navigable order then find_cursor() is its zero-based index *)
(* in the sequence root, next_node(root), ...; if it lies under a          *)
(* collapsed ancestor then find_cursor() is None.                          *)
(***************************************************************************)
C3_FindCursorCorrect ==
    \A c \in DOMAIN nodes :
        LET s == [Self EXCEPT !.cursor = c]
            seq == NextSeq(Self)
        IN IF Visible(Self, c)
           THEN /\ find_cursor(s) # None
                /\ Occurrences(seq, c) = 1
                /\ find_cursor(s) = IndexOf(seq, c) - 1
           ELSE find_cursor(s) = None

(* A tree with a navigable node found at line 3, after a collapsed node    *)
(* that hides a node for which find_cursor() is None.                      *)
C3_Witness ==
    \E c, h \in DOMAIN nodes :
        /\ Visible(Self, c)
        /\ find_cursor([Self EXCEPT !.cursor = c]) = 3
        /\ ~Visible(Self, h)
        /\ h < c
        /\ find_cursor([Self EXCEPT !.cursor = h]) = None

(***************************************************************************)
(* C4: collapse hides subtree: collapsing a node n removes exactly the     *)
(* nodes of n's subtree (n itself stays) from the sequence produced by     *)
(* repeatedly applying next_node from root, keeping the order of all other *)
(* nodes; expanding n again restores the original sequence exactly.        *)
(***************************************************************************)
C4_CollapseHidesSubtree ==
    \A n \in DOMAIN nodes :
        LET collapsed == expand(Self, n, FALSE)
        IN /\ NextSeq(collapsed) = WithoutSubtree(Self, NextSeq(Self), n)
           /\ nodes[n].expanded =>
                /\ toggle(Self, n) = collapsed
                /\ NextSeq(expand(collapsed, n, TRUE)) = NextSeq(Self)
                /\ NextSeq(toggle(collapsed, n)) = NextSeq(Self)

(* An expanded navigable node with a navigable grandchild and a later      *)
(* sibling: collapsing it removes nodes from the middle of the sequence.   *)
C4_Witness ==
    \E n, g \in DOMAIN nodes :
        /\ Visible(Self, n)
        /\ nodes[n].expanded
        /\ Visible(Self, g)
        /\ nodes[g].parent # None
        /\ nodes[g].parent # n
        /\ IsAncestor(Self, n, g)
        /\ next_sibling(Self, n) # None

(***************************************************************************)
(* C5: concrete scenario.                                                  *)
(***************************************************************************)

(* The tree root->{a, b}, a->{a1, a2} with root and a expanded. *)
ScenarioTree(s, a, b, a1, a2) ==
    /\ DOMAIN s.nodes = {0, a, b, a1, a2}
    /\ s.nodes[0].children = <<a, b>>
    /\ s.nodes[a].children = <<a1, a2>>
    /\ s.nodes[b].children = <<>>
    /\ s.nodes[a1].children = <<>>
    /\ s.nodes[a2].children = <<>>
    /\ s.nodes[0].expanded
    /\ s.nodes[a].expanded

At(s) == <<s.cursor, s.cursor_line>>

(* From s, four cursor_down() calls visit a, a1, a2, b at lines 1..4. *)
FourDowns(s, a, b, a1, a2) ==
    LET s1 == cursor_down(s)
        s2 == cursor_down(s1)
        s3 == cursor_down(s2)
        s4 == cursor_down(s3)
    IN /\ At(s1) = <<a, 1>>
       /\ At(s2) = <<a1, 2>>
       /\ At(s3) = <<a2, 3>>
       /\ At(s4) = <<b, 4>>

(* After the four calls from s: collapse a, return to root, and the next   *)
(* cursor_down() calls visit a, b at lines 1, 2.                           *)
ThenCollapsed(s, a, b) ==
    LET s4 == cursor_down(cursor_down(cursor_down(cursor_down(s))))
        c == key_home(expand(s4, a, FALSE))
        d1 == cursor_down(c)
        d2 == cursor_down(d1)
    IN /\ At(c) = <<0, 0>>
       /\ At(d1) = <<a, 1>>
       /\ At(d2) = <<b, 2>>

(* C5 as claimed: on the scenario tree with the cursor at root (whatever   *)
(* show_cursor is, false on a freshly created control), four consecutive   *)
(* cursor_down() calls visit A, A1, A2, B with cursor_line 1, 2, 3, 4, and *)
(* after collapsing A and returning to root the next calls visit A, B with *)
(* cursor_line 1, 2.                                                       *)
C5_ScenarioAsClaimed ==
    \A a, b, a1, a2 \in DOMAIN nodes :
        (ScenarioTree(Self, a, b, a1, a2) /\ cursor = 0 /\ cursor_line = 0)
            => /\ FourDowns(Self, a, b, a1, a2)
               /\ ThenCollapsed(Self, a, b)

(***************************************************************************)
(* C5 (amended): on the scenario tree with the cursor at root, once the    *)
(* cursor is shown (on a freshly created control the first cursor_down()   *)
(* only sets show_cursor and moves nothing), four consecutive              *)
(* cursor_down() calls visit A, A1, A2, B with cursor_line 1, 2, 3, 4;     *)
(* after collapsing A and returning to root, the following cursor_down()   *)
(* calls visit A then B with cursor_line 1, 2.                             *)
(***************************************************************************)
C5_Scenario ==
    \A a, b, a1, a2 \in DOMAIN nodes :
        (ScenarioTree(Self, a, b, a1, a2) /\ cursor = 0 /\ cursor_line = 0)
            => LET shown == IF show_cursor THEN Self ELSE cursor_down(Self)
               IN /\ Fields(shown) = [Self EXCEPT !.show_cursor = TRUE]
                  /\ FourDowns(shown, a, b, a1, a2)
                  /\ ThenCollapsed(shown, a, b)

(* The scenario tree with the cursor shown on B at line 4, where the       *)
(* cursor_down() calls from the root end.                                  *)
C5_Witness ==
    \E a, b, a1, a2 \in DOMAIN nodes :
        /\ ScenarioTree(Self, a, b, a1, a2)
        /\ show_cursor
        /\ cursor = b
        /\ cursor_line = 4

(***************************************************************************)
(* C6: id uniqueness/monotonicity: the ids given to the created nodes are  *)
(* 1, 2, 3, ... in call order, with no repeats and no reuse, and the root  *)
(* keeps id 0.                                                             *)
(***************************************************************************)
C6_IdsMonotonic ==
    /\ DOMAIN nodes = 0..node_id
    /\ \A k \in DOMAIN nodes : nodes[k].id = k
    /\ nodes[0].parent = None
    /\ \A p \in DOMAIN nodes :
        LET t == add(Self, p)
            created == DOMAIN t.nodes \ DOMAIN nodes
        IN /\ created = {Cardinality(DOMAIN nodes)}
           /\ \A new \in created :
                /\ \A k \in DOMAIN nodes : k < new
                /\ t.nodes[new].id = new
                /\ t.node_id = new
           /\ \A k \in DOMAIN nodes : t.nodes[k].id = k

(* Three nodes were added, to different parents, between cursor moves. *)
C6_Witness ==
    /\ node_id >= 3
    /\ \E n \in DOMAIN nodes : n # 0 /\ nodes[n].children # <<>>
    /\ show_cursor
    /\ cursor # 0

(***************************************************************************)
(* C7: tree structure invariant: the registry's keys are exactly the ids   *)
(* 0..node_id, the root has no parent, every other registered node occurs  *)
(* exactly once in the children of its parent and in no other node's       *)
(* children, and each node's children are in increasing id order.          *)
(***************************************************************************)
C7_TreeStructure ==
    /\ DOMAIN nodes = 0..node_id
    /\ nodes[0].parent = None
    /\ \A m \in DOMAIN nodes : 0 \notin Range(nodes[m].children)
    /\ \A n \in DOMAIN nodes \ {0} :
        /\ nodes[n].parent \in DOMAIN nodes
        /\ \A m \in DOMAIN nodes :
            Occurrences(nodes[m].children, n) = (IF m = nodes[n].parent THEN 1 ELSE 0)
    /\ \A m \in DOMAIN nodes :
        /\ Range(nodes[m].children) \subseteq DOMAIN nodes
        /\ Increasing(nodes[m].children)

(* The root has two children and one of them has a child of its own, added *)
(* between cursor moves.                                                   *)
C7_Witness ==
    \E m \in DOMAIN nodes \ {0} :
        /\ Len(nodes[m].children) >= 1
        /\ Len(nodes[0].children) >= 2
        /\ cursor = m
        /\ cursor \in Range(nodes[0].children)

(***************************************************************************)
(* C8: boundary no-op: cursor_down() with the cursor on the last node in   *)
(* navigable order leaves cursor and cursor_line unchanged, and            *)
(* cursor_up() with the cursor on the first node (root) leaves them        *)
(* unchanged.                                                              *)
(***************************************************************************)
C8_BoundaryNoOp ==
    /\ cursor = Last(Navigable(Self)) => At(cursor_down(Self)) = <<cursor, cursor_line>>
    /\ cursor = Head(Navigable(Self)) => At(cursor_up(Self)) = <<cursor, cursor_line>>

(* The shown cursor has been moved down to the last of at least three      *)
(* navigable nodes, a node nested below a child of the root.               *)
C8_Witness ==
    /\ show_cursor
    /\ Len(Navigable(Self)) >= 3
    /\ cursor = Last(Navigable(Self))
    /\ cursor_line = Len(Navigable(Self)) - 1
    /\ nodes[cursor].parent # 0

(* The kinds C9 names as bubbling and as not bubbling. *)
ClaimedBubbling ==
    {"Key", "MouseMove", "MouseDown", "MouseUp", "Click", "DoubleClick",
     "MouseScrollDown", "MouseScrollUp"}

ClaimedNotBubbling ==
    {"NoneEvent", "Load", "Startup", "Created", "Mount", "Unmount", "Idle",
     "Shutdown", "ShutdownRequest", "Updated", "Resize", "Timer", "Enter", "Leave"}

(***************************************************************************)
(* C9: every input event kind bubbles (Key, MouseMove, MouseDown, MouseUp, *)
(* Click, DoubleClick, MouseScrollDown, MouseScrollUp have bubble = true:  *)
(* an unstopped instance is forwarded from its sender to the sender's      *)
(* parent), while NoneEvent, Load, Startup, Created, Mount, Unmount, Idle,  *)
(* Shutdown, ShutdownRequest, Updated, Resize, Timer, Enter, Leave have    *)
(* bubble = false (an instance goes no further than its sender).           *)
(***************************************************************************)
C9_InputKindsBubble ==
    (event # NoEvent /\ offered = <<event.sender>> /\ event.sender # "top" /\ ~event.stop)
        => /\ event.kind \in ClaimedBubbling => target = Parent(event.sender)
           /\ event.kind \in ClaimedNotBubbling => target = "done"

(***************************************************************************)
(* C10: bubbling stop: a bubbling event emitted at the leaf of a           *)
(* three-level chain is offered as the same instance to leaf, middle, top  *)
(* in that order; if the middle's handler calls stop(), the top's handler  *)
(* is never invoked for it, as when TreeControl's key_down, key_up and     *)
(* key_enter stop a Key event.                                             *)
(***************************************************************************)
C10_BubblingStop ==
    (event # NoEvent /\ event.sender = "leaf")
        => /\ Len(offered) <= Len(Chain)
           /\ \A i \in 1..Len(offered) : offered[i] = Chain[i]
           /\ (Bubble(event.kind) /\ ~event.stop /\ target = "done") => offered = Chain
           /\ (event.stop /\ "middle" \in Range(offered)) => "top" \notin Range(offered)
           /\ (event.kind = "Key" /\ event.key \in {"down", "up", "enter"}
                    /\ "middle" \in Range(offered))
                => /\ event.stop
                   /\ target = "done"
                   /\ offered = <<"leaf", "middle">>

(* A Key "down" event from the leaf was stopped by the TreeControl's       *)
(* key_down, which moved the cursor, and went no further.                  *)
C10_Witness ==
    /\ event # NoEvent
    /\ event.kind = "Key"
    /\ event.key = "down"
    /\ event.sender = "leaf"
    /\ event.stop
    /\ offered = <<"leaf", "middle">>
    /\ target = "done"
    /\ cursor # 0

(***************************************************************************)
(* C11: add with a parent id that is not in the registry fails with        *)
(* KeyError and changes nothing: the counter, the registry with every      *)
(* node's children, cursor, cursor_line and show_cursor are as before, no  *)
(* refresh is requested, and the next successful add yields the id it      *)
(* would have yielded without the failed call.                             *)
(***************************************************************************)
C11_AddUnknownParentChangesNothing ==
    \A parent_id \in UnknownIds(Self) :
        LET failed == add(Self, parent_id)
        IN /\ failed.log = <<LogEntry("raise", "KeyError", None)>>
           /\ Fields(failed) = Self
           /\ \A p \in DOMAIN nodes :
                LET after == add(Fields(failed), p)
                IN /\ after.node_id = node_id + 1
                   /\ after = add(Self, p)

(* A control with several nodes, the cursor shown below the root, on       *)
(* which add with an unregistered id raises.                               *)
C11_Witness ==
    /\ node_id >= 2
    /\ cursor # 0
    /\ cursor_line > 0
    /\ show_cursor
    /\ \A parent_id \in UnknownIds(Self) : Raised(add(Self, parent_id))

(***************************************************************************)
(* C12: change-detected watchers: assigning a Reactive attribute (cursor,  *)
(* cursor_line, hover_node, show_cursor) the value it holds invokes no     *)
(* watcher and requests no refresh and no scroll; a handler invokes an     *)
(* attribute's watcher once if it changed the attribute and not at all     *)
(* otherwise, every refresh or scroll request comes from a watcher, and a  *)
(* second key_home() in a row invokes no watcher.                          *)
(***************************************************************************)
C12_ChangeDetectedWatchers ==
    /\ \A name \in ReactiveNames : set_attr(Self, name, Self[name]) = Self
    /\ \A t \in Handled(Self) :
        /\ \A name \in ReactiveNames :
                Len(EntriesOf(t.log, "watch", name)) = IF t[name] = Self[name] THEN 0 ELSE 1
        /\ Len(Entries(t.log, "scroll"))
                = Len(EntriesOf(t.log, "watch", "cursor_line"))
                    + Len(EntriesOf(t.log, "watch", "show_cursor"))
        /\ Len(Entries(t.log, "refresh"))
                = Len(EntriesOf(t.log, "watch", "cursor"))
                    + Len(EntriesOf(t.log, "watch", "hover_node"))
    /\ key_home(Fields(key_home(Self))).log = <<>>
    /\ \A id \in DOMAIN nodes :
            action_click_label(Fields(action_click_label(Self, id)), id).log
                = <<LogEntry("post", "NodeSelected", id)>>

(* The cursor was moved down the tree; key_home() invokes both watchers    *)
(* and a second key_home() none.                                           *)
C12_Witness ==
    /\ show_cursor
    /\ cursor # 0
    /\ cursor_line > 0
    /\ Len(Entries(key_home(Self).log, "watch")) = 2
    /\ key_home(Fields(key_home(Self))).log = <<>>

(***************************************************************************)
(* C13: the first movement only shows the cursor: while show_cursor is     *)
(* false, cursor_down() and cursor_up() set show_cursor true and leave     *)
(* cursor and cursor_line (and everything else) as they are, whatever the  *)
(* tree; no call sets show_cursor back to false, and with show_cursor true *)
(* cursor_down() moves to the next node and cursor_up() to the previous    *)
(* one, cursor_line following by one.                                      *)
(***************************************************************************)
C13_FirstMoveOnlyShowsCursor ==
    /\ ~show_cursor =>
            /\ Fields(cursor_down(Self)) = [Self EXCEPT !.show_cursor = TRUE]
            /\ Fields(cursor_up(Self)) = [Self EXCEPT !.show_cursor = TRUE]
    /\ show_cursor =>
            /\ \A t \in Called(Self) : t.show_cursor
            /\ next_node(Self, cursor) # None =>
                    At(cursor_down(Self)) = <<next_node(Self, cursor), cursor_line + 1>>
            /\ previous_node(Self, cursor) # None =>
                    At(cursor_up(Self)) = <<previous_node(Self, cursor), cursor_line - 1>>

(* The cursor is hidden on a node that has both a next and a previous      *)
(* node: each of the two calls only shows it, and the call after that      *)
(* moves.                                                                  *)
C13_Witness ==
    /\ ~show_cursor
    /\ next_node(Self, cursor) # None
    /\ previous_node(Self, cursor) # None
    /\ At(cursor_up(Self)) = At(Self)
    /\ At(cursor_up(Fields(cursor_up(Self)))) = <<previous_node(Self, cursor), cursor_line - 1>>
    /\ At(cursor_down(Fields(cursor_down(Self)))) = <<next_node(Self, cursor), cursor_line + 1>>

(* k consecutive cursor_down() calls, and k consecutive cursor_up() calls. *)
RECURSIVE CursorDowns(_, _)
CursorDowns(s, k) == IF k = 0 THEN s ELSE CursorDowns(cursor_down(s), k - 1)

RECURSIVE CursorUps(_, _)
CursorUps(s, k) == IF k = 0 THEN s ELSE CursorUps(cursor_up(s), k - 1)

(***************************************************************************)
(* C14: page moves are repeated single steps: with show_cursor true and a  *)
(* viewport height h >= 0, key_pagedown() ends with the cursor and         *)
(* cursor_line of h consecutive cursor_down() calls and key_pageup() with  *)
(* those of h consecutive cursor_up() calls; cursor_line changes by the    *)
(* number of steps taken, which is at most h and less than h only when the *)
(* last node, or the root, has been reached.                               *)
(***************************************************************************)
C14_PageIsRepeatedSteps ==
    show_cursor =>
        \A h \in 0..MaxHeight :
            LET down == key_pagedown(Self, h)
                up == key_pageup(Self, h)
                steps_down == down.cursor_line - cursor_line
                steps_up == cursor_line - up.cursor_line
            IN /\ Fields(down) = Fields(CursorDowns(Self, h))
               /\ Fields(up) = Fields(CursorUps(Self, h))
               /\ steps_down \in 0..h
               /\ steps_up \in 0..h
               /\ steps_down < h => next_node(Self, down.cursor) = None
               /\ steps_up < h => previous_node(Self, up.cursor) = None
               /\ Len(NextWalk(Self, cursor, steps_down + 1)) = steps_down + 1
               /\ down.cursor = Last(NextWalk(Self, cursor, steps_down + 1))

(* The cursor is shown one step below the root with one node after it: a   *)
(* page of two lines is cut short at both ends.                            *)
C14_Witness ==
    /\ show_cursor
    /\ MaxHeight >= 2
    /\ previous_node(Self, cursor) = 0
    /\ next_node(Self, cursor) # None
    /\ next_node(Self, next_node(Self, cursor)) = None
    /\ At(key_pagedown(Self, 2)) = <<next_node(Self, cursor), cursor_line + 1>>
    /\ At(key_pageup(Self, 2)) = <<0, cursor_line - 1>>
    /\ At(key_pagedown(Self, 1)) = At(key_pagedown(Self, 2))

(***************************************************************************)
(* C15: key_end(): if the root has at least one child, the cursor becomes  *)
(* the id of the root's last child and cursor_line the position            *)
(* find_cursor() reports for the new cursor, or 0 when find_cursor() is    *)
(* None, which is when the root is collapsed; nothing else changes. If the *)
(* root has no children the call raises and cursor, cursor_line and        *)
(* show_cursor (and everything else) are unchanged.                        *)
(***************************************************************************)
C15_KeyEnd ==
    LET children == nodes[0].children
        ended == key_end(Self)
    IN /\ children # <<>> =>
            /\ ~Raised(ended)
            /\ ended.cursor = children[Len(children)]
            /\ (find_cursor(ended) = None) = ~nodes[0].expanded
            /\ ended.cursor_line =
                    IF nodes[0].expanded
                    THEN IndexOf(Navigable(Self), children[Len(children)]) - 1
                    ELSE 0
            /\ find_cursor(ended) # None => ended.cursor_line = find_cursor(ended)
            /\ Fields(ended) = [Self EXCEPT !.cursor = ended.cursor,
                                            !.cursor_line = ended.cursor_line]
       /\ children = <<>> =>
            /\ ended.log = <<LogEntry("raise", "IndexError", None)>>
            /\ Fields(ended) = Self

(* The cursor is on the root's last child, which is not its only child and *)
(* comes after an expanded subtree, at the line key_end() computes.        *)
C15_Witness ==
    LET children == nodes[0].children
    IN /\ Len(children) >= 2
       /\ nodes[0].expanded
       /\ cursor = children[Len(children)]
       /\ cursor_line = Len(Navigable(Self)) - 1
       /\ cursor_line > Len(children)
       /\ At(key_end(Self)) = At(Self)

(***************************************************************************)
(* C16: NodeSelected always carries the cursor node: key_enter() and a     *)
(* click on a node's label each post exactly one NodeSelected, for the     *)
(* node whose id is the cursor when the message is posted. The click posts *)
(* it last: after the cursor is set to the clicked node, cursor_line is    *)
(* recomputed with find_cursor() (None giving 0) and show_cursor is set    *)
(* true. key_enter() changes none of cursor, cursor_line, show_cursor      *)
(* (nor anything else of the control) and stops the key event.             *)
(***************************************************************************)
C16_NodeSelectedCarriesCursor ==
    /\ \A id \in DOMAIN nodes :
            LET clicked == action_click_label(Self, id)
            IN /\ Len(Entries(clicked.log, "post")) = 1
               /\ Last(clicked.log) = LogEntry("post", "NodeSelected", clicked.cursor)
               /\ clicked.cursor = id
               /\ clicked.cursor_line = OrZero(find_cursor(clicked))
               /\ clicked.show_cursor
               /\ Fields(clicked) = [Self EXCEPT !.cursor = id,
                                                 !.cursor_line = clicked.cursor_line,
                                                 !.show_cursor = TRUE]
    /\ LET entered == key_enter(Self, EnterKey)
       IN /\ entered.ctl.log = <<LogEntry("post", "NodeSelected", cursor)>>
          /\ Fields(entered.ctl) = Self
          /\ entered.event = stop(EnterKey)

(* The cursor is shown on a nested node at its line, as a click on that    *)
(* node's label leaves it: the click invoked the watchers before it        *)
(* posted, and key_enter() now posts the same node.                        *)
C16_Witness ==
    /\ show_cursor
    /\ nodes[cursor].parent \notin {None, 0}
    /\ cursor_line = find_cursor(Self)
    /\ \E id \in DOMAIN nodes :
            /\ id # cursor
            /\ Visible(Self, id)
            /\ Len(action_click_label(Self, id).log) > 1
    /\ key_enter(Self, EnterKey).ctl.log = <<LogEntry("post", "NodeSelected", cursor)>>

(***************************************************************************)
(* C17: cursor_line is never negative, in every state reachable by add,    *)
(* expand/toggle, cursor_down/up, key_pagedown/pageup, key_home, key_end   *)
(* and click.                                                              *)
(***************************************************************************)
C17_CursorLineNonNegative == cursor_line >= 0

(* The sequence n, previous_node(n), previous_node(previous_node(n)), ...  *)
(* up to None, cut after fuel entries.                                     *)
RECURSIVE PreviousWalk(_, _, _)
PreviousWalk(s, n, fuel) ==
    IF n = None \/ fuel = 0 THEN <<>>
    ELSE <<n>> \o PreviousWalk(s, previous_node(s, n), fuel - 1)

Reversed(seq) == [i \in 1..Len(seq) |-> seq[Len(seq) + 1 - i]]

(***************************************************************************)
(* C18: traversal terminates and is exhaustive: applying next_node         *)
(* repeatedly from the root reaches None after at most as many steps as    *)
(* there are nodes and visits every navigable node exactly once, in        *)
(* navigable order, and no node below a collapsed ancestor; applying       *)
(* previous_node repeatedly from any navigable node runs back through the  *)
(* navigable nodes before it, reaches the root and then None.              *)
(***************************************************************************)
C18_TraversalTerminatesExhaustive ==
    LET size == Cardinality(DOMAIN nodes)
        walk == NextWalk(Self, 0, size + 1)
    IN /\ Len(walk) <= size
       /\ next_node(Self, Last(walk)) = None
       /\ walk = Navigable(Self)
       /\ \A n \in DOMAIN nodes :
            Occurrences(walk, n) = IF Visible(Self, n) THEN 1 ELSE 0
       /\ \A n \in Range(Navigable(Self)) :
            LET back == PreviousWalk(Self, n, size + 1)
            IN /\ Len(back) <= size
               /\ Last(back) = 0
               /\ previous_node(Self, 0) = None
               /\ back = Reversed(SubSeq(walk, 1, IndexOf(walk, n)))

(* The root is expanded and has two children, the first expanded with a    *)
(* child that is collapsed and has a child of its own: the walk goes from  *)
(* the collapsed node up to the second child and never visits the hidden   *)
(* node.                                                                   *)
C18_Witness ==
    \E a, b, c, d \in DOMAIN nodes :
        /\ nodes[0].expanded /\ nodes[0].children = <<a, b>>
        /\ nodes[a].expanded /\ nodes[a].children = <<c>>
        /\ ~nodes[c].expanded /\ nodes[c].children = <<d>>
        /\ NextSeq(Self) = <<0, a, c, b>>
        /\ PreviousWalk(Self, b, 5) = <<b, c, a, 0>>

(* The outcomes of the movement calls, called on s. *)
Moved(s) ==
    {cursor_down(s), cursor_up(s), key_home(s), key_end(s)}
        \cup {key_pagedown(s, h) : h \in 0..MaxHeight}
        \cup {key_pageup(s, h) : h \in 0..MaxHeight}

(***************************************************************************)
(* C19: movement keeps the cursor visible: if the cursor node is navigable *)
(* before cursor_down, cursor_up, key_pagedown, key_pageup, key_home or    *)
(* key_end, it is navigable after the call: none of them moves the cursor  *)
(* onto a node hidden under a collapsed ancestor.                          *)
(***************************************************************************)
C19_MovementKeepsCursorVisible ==
    Visible(Self, cursor) => \A t \in Moved(Self) : Visible(t, t.cursor)

(***************************************************************************)
(* C20: down/up round trip: with show_cursor true and the cursor on a      *)
(* navigable node that is not the last in navigable order, cursor_down()   *)
(* followed by cursor_up() restores cursor and cursor_line (and leaves     *)
(* everything else as it was); and for every navigable node n whose        *)
(* next_node is a node m, previous_node(m) is n.                           *)
(***************************************************************************)
C20_DownUpRoundTrip ==
    /\ (show_cursor /\ Visible(Self, cursor) /\ next_node(Self, cursor) # None) =>
            LET down == cursor_down(Self)
                back == cursor_up(down)
            IN /\ At(down) = <<next_node(Self, cursor), cursor_line + 1>>
               /\ At(back) = At(Self)
               /\ Fields(back) = Self
    /\ \A n \in Range(Navigable(Self)) :
            next_node(Self, n) # None => previous_node(Self, next_node(Self, n)) = n

(* The shown cursor is on a nested node at the end of an expanded subtree: *)
(* cursor_down() leaves the subtree for a child of the root and            *)
(* cursor_up() comes back to the nested node.                              *)
C20_Witness ==
    /\ show_cursor
    /\ Visible(Self, cursor)
    /\ cursor_line = find_cursor(Self)
    /\ nodes[cursor].parent \notin {None, 0}
    /\ next_node(Self, cursor) # None
    /\ nodes[next_node(Self, cursor)].parent = 0
    /\ At(cursor_up(cursor_down(Self))) = At(Self)
====
